---- MODULE Spec2Model ----
(***************************************************************************)
(* Model of star_visualizer.py: the audio analysis result (load_audio),    *)
(* the StarGroup particle groups (reset / update) and the per-frame driver *)
(* (create_frame, called by main through make_frame).                      *)
(*                                                                         *)
(* Number representation (the program computes in binary floating point):  *)
(*   - time t and the track duration are counted in ticks of 1/FPS second; *)
(*   - lengths (distance, speed) are counted in 1/100 pixel;               *)
(*   - headings are counted in quarter turns, TWO_PI quarter turns a turn; *)
(*   - opacity (alpha) is counted in 1/(60*FPS), so that the per-frame     *)
(*     change 255*BPM/(60*FPS) is the whole number 255*BPM;                *)
(*   - energies are counted in 1/1000.                                     *)
(***************************************************************************)
EXTENDS Integers, Sequences, FiniteSets, TLC

VARIABLES pc, rng, vocal_energy, total_frames, duration, stars, did_reset,
          since_reset, t, current_energy, frames, twin, probe_distance, probe_speed

vars == <<pc, rng, vocal_energy, total_frames, duration, stars, did_reset,
          since_reset, t, current_energy, frames, twin, probe_distance, probe_speed>>

----------------------------------------------------------------------------
(* Bounds of the model *)

\* number of star groups built by main (NUM_STAR_GROUPS = 80 in the program)
NumGroups == 2
\* number of frames requested from create_frame in one run
MaxFrames == 170
\* number of initial states of the random generator that are explored
NumSeeds == 2
\* the probe of the speed formula samples distance at k/SpeedSteps of the diagonal
SpeedSteps == 60

----------------------------------------------------------------------------
(* Configuration parameters, star_visualizer.py lines 10-22 *)

WIDTH == 1920
HEIGHT == 1080
FPS == 30
BPM == 85
STARS_PER_GROUP == 7
\* 3.0 and 8.0 pixels per frame, in 1/100 pixel
BASE_SPEED == 300
MAX_SPEED == 800
\* a full turn, in quarter turns
TWO_PI == 4

Min(a, b) == IF a < b THEN a ELSE b
Max(a, b) == IF a > b THEN a ELSE b

\* Python's int() of the quotient a/b (b > 0): truncation toward zero
Trunc(a, b) == IF a >= 0 THEN a \div b ELSE -((-a) \div b)

\* floor(sqrt(n)) by bisection
RECURSIVE SqrtBetween(_, _, _)
SqrtBetween(n, lo, hi) ==
    IF hi - lo <= 1 THEN lo
    ELSE LET mid == (lo + hi) \div 2
         IN  IF mid * mid <= n THEN SqrtBetween(n, mid, hi)
                               ELSE SqrtBetween(n, lo, mid)

\* math.sqrt(WIDTH**2 + HEIGHT**2), in 1/100 pixel (root taken in 1/10 pixel)
SCREEN_DIAGONAL ==
    10 * SqrtBetween((10 * WIDTH) * (10 * WIDTH) + (10 * HEIGHT) * (10 * HEIGHT),
                     0, 10 * (WIDTH + HEIGHT))

----------------------------------------------------------------------------
(* The random module: one process-wide generator. Its state is rng; every  *)
(* call of random.random() advances it and returns a value in [0,1), here  *)
(* one of the levels 0/RandLevels .. (RandLevels-1)/RandLevels.            *)

RandLevels == 4
RngModulus == 64

\* the generator state after k more calls
Advance(s, k) == (s + k) % RngModulus

\* the output function of the generator
Mix(x) == ((x * 37 + 11) * (x + 5)) % RngModulus

\* the level returned by the k-th call of random.random() made from state s
Random(s, k) == (Mix(Advance(s, k)) * RandLevels) \div RngModulus

\* random.uniform(a, b) == a + (b - a) * random.random(), k-th call from s
Uniform(a, b, s, k) == a + ((b - a) * Random(s, k)) \div RandLevels

\* math.cos and math.sin of a heading given in quarter turns
Cos(a) == CASE a % 4 = 0 -> 1 [] a % 4 = 1 -> 0 [] a % 4 = 2 -> -1 [] OTHER -> 0
Sin(a) == CASE a % 4 = 0 -> 0 [] a % 4 = 1 -> 1 [] a % 4 = 2 -> 0 [] OTHER -> -1

----------------------------------------------------------------------------
(* load_audio *)

\* the analysed audio files: raw band energy of every full hop of 512
\* samples, and len(y)/sr in ticks
MainInputs ==
    { [energy |-> <<>>, dur |-> 1],
      [energy |-> <<2, 4>>, dur |-> 40] }

RECURSIVE SeqMax(_)
SeqMax(s) == IF Len(s) = 1 THEN s[1] ELSE Max(s[1], SeqMax(Tail(s)))

\* lines 43-45: max() of an empty list raises ValueError
Normalize(energy) ==
    IF energy = <<>> THEN [ok |-> FALSE, value |-> <<>>]
    ELSE LET max_energy == IF SeqMax(energy) > 0 THEN SeqMax(energy) ELSE 1
         IN  [ok |-> TRUE,
              value |-> [i \in 1..Len(energy) |-> (energy[i] * 1000) \div max_energy]]

LoadAudio(inputs) ==
    /\ pc = "start"
    /\ \E in \in inputs :
          LET n == Normalize(in.energy)
          IN  /\ pc' = IF n.ok THEN "loaded" ELSE "error"
              /\ vocal_energy' = n.value
              /\ total_frames' = Len(in.energy)
              /\ duration' = in.dur
    /\ UNCHANGED <<rng, stars, did_reset, since_reset, t, current_energy, frames,
                   twin, probe_distance, probe_speed>>

----------------------------------------------------------------------------
(* StarGroup *)

\* draws made by one reset(): heading, distance, three per star, one per pair
ResetDraws == 2 + 3 * STARS_PER_GROUP + (STARS_PER_GROUP * (STARS_PER_GROUP - 1)) \div 2

\* lines 70-77: the k-th star (k = 0 ..), drawn from generator state s
NewStar(s, k) ==
    [angle_offset |-> Uniform(-1000, 1000, s, 3 + 3 * k),
     dist_offset  |-> Uniform(1000, 2000, s, 4 + 3 * k),
     pulse_phase  |-> Uniform(0, TWO_PI * 1000, s, 5 + 3 * k)]

NewStars(s) == [k \in 1..STARS_PER_GROUP |-> NewStar(s, k - 1)]

\* the pairs visited when the inner loop starts at i instead of i + 1
RECURSIVE PairsFromSelf(_, _, _)
PairsFromSelf(i, j, n) ==
    IF i >= n THEN <<>>
    ELSE IF j >= n THEN PairsFromSelf(i + 1, i + 1, n)
    ELSE <<<<i, j>>>> \o PairsFromSelf(i, j + 1, n)

LoopPairsFromSelf(n) == PairsFromSelf(0, 0, n)

RECURSIVE PairsFrom(_, _, _)
PairsFrom(i, j, n) ==
    IF i >= n THEN <<>>
    ELSE IF j >= n THEN PairsFrom(i + 1, i + 2, n)
    ELSE <<<<i, j>>>> \o PairsFrom(i, j + 1, n)

\* lines 80-81: the pairs (i, j) visited by the nested loops, in loop order
LoopPairs(n) == PairsFrom(0, 1, n)

\* line 82: random.random() < 0.35
Below035(level) == 100 * level < 35 * RandLevels

\* lines 80-87: one draw per visited pair, a connection where the draw is low
RECURSIVE NewConnections(_, _, _)
NewConnections(pairs, s, k) ==
    IF pairs = <<>> THEN <<>>
    ELSE (IF Below035(Random(s, k))
          THEN <<[stars |-> Head(pairs), alpha |-> 0, active |-> FALSE]>>
          ELSE <<>>)
         \o NewConnections(Tail(pairs), s, k + 1)

\* reset() that draws the distance from [0, 2000]
ResetWide(g, s) ==
    LET new_stars == NewStars(s)
    IN  [g EXCEPT
           !.stars = new_stars,
           !.angle = Uniform(0, TWO_PI, s, 1),
           !.speed = BASE_SPEED,
           !.distance = Uniform(0, 2000 * 100, s, 2),
           !.connections =
               NewConnections(LoopPairs(Len(new_stars)), s, 3 + 3 * STARS_PER_GROUP)]

\* StarGroup.reset, lines 61-87, with the generator in state s
Reset(g, s) ==
    LET new_stars == NewStars(s)
    IN  [g EXCEPT
           !.stars = new_stars,
           !.angle = Uniform(0, TWO_PI, s, 1),
           !.speed = BASE_SPEED,
           !.distance = Uniform(0, 200 * 100, s, 2),
           !.connections =
               NewConnections(LoopPairs(Len(new_stars)), s, 3 + 3 * STARS_PER_GROUP)]

\* StarGroup.__init__, lines 52-59: two draws, then reset()
NewGroup(group_id, s) ==
    Reset([id |-> group_id, stars |-> <<>>, connections |-> <<>>,
           angle |-> Uniform(0, TWO_PI, s, 1), speed |-> BASE_SPEED,
           distance |-> Uniform(0, 200 * 100, s, 2)],
          Advance(s, 2))

\* the speed formula with MAX_SPEED as the factor of the cubic term
SpeedMaxFactor(distance) ==
    LET distance_ratio == (distance * 1000) \div SCREEN_DIAGONAL
        cube == (distance_ratio * distance_ratio * distance_ratio) \div 1000
    IN  BASE_SPEED + (MAX_SPEED * cube) \div 1000000

\* lines 92-93: speed from the distance, cubic in distance / SCREEN_DIAGONAL
Speed(distance) ==
    LET distance_ratio == (distance * 1000) \div SCREEN_DIAGONAL
        cube == (distance_ratio * distance_ratio * distance_ratio) \div 1000
    IN  BASE_SPEED + ((MAX_SPEED - BASE_SPEED) * cube) \div 1000000

\* the distance stepped inward
MoveInward(distance, speed) == distance - speed

\* line 96
Move(distance, speed) == distance + speed

\* the test with a margin of 10000 pixels
OffScreenWideMargin(angle, distance) ==
    LET center_x == WIDTH * 50 + Cos(angle) * distance
        center_y == HEIGHT * 50 + Sin(angle) * distance
    IN  \/ center_x < -1000000 \/ center_x > (WIDTH + 10000) * 100
        \/ center_y < -1000000 \/ center_y > (HEIGHT + 10000) * 100

\* the test with "and" between the two axes
OffScreenBothAxes(angle, distance) ==
    LET center_x == WIDTH * 50 + Cos(angle) * distance
        center_y == HEIGHT * 50 + Sin(angle) * distance
    IN  /\ (center_x < -10000 \/ center_x > (WIDTH + 100) * 100)
        /\ (center_y < -10000 \/ center_y > (HEIGHT + 100) * 100)

\* lines 99-104: the centre left the canvas grown by 100 pixels
OffScreen(angle, distance) ==
    LET center_x == WIDTH * 50 + Cos(angle) * distance
        center_y == HEIGHT * 50 + Sin(angle) * distance
    IN  \/ center_x < -10000 \/ center_x > (WIDTH + 100) * 100
        \/ center_y < -10000 \/ center_y > (HEIGHT + 100) * 100

\* line 109: int(time / BEAT_DURATION), BEAT_DURATION = 60 / BPM
BeatIndex(time) == Trunc(time * BPM, 60 * FPS)

\* a fade of one second instead of one beat: 255 / FPS, in 1/(60*FPS)
AlphaChangePerSecond == 255 * 60

\* line 112: 255 * BPM / (60 * FPS), in 1/(60*FPS)
AlphaChange == 255 * BPM
FullAlpha == 255 * 60 * FPS

\* activation that keeps the opacity the connection has
ToggleKeepAlpha(conn, beat_index) ==
    IF beat_index % 2 = 0 /\ ~conn.active
    THEN [conn EXCEPT !.active = TRUE]
    ELSE IF beat_index % 2 = 1 /\ conn.active
    THEN [conn EXCEPT !.active = FALSE]
    ELSE conn

\* deactivation that waits for the fade-in to finish
ToggleWhenFull(conn, beat_index) ==
    IF beat_index % 2 = 0 /\ ~conn.active
    THEN [conn EXCEPT !.active = TRUE, !.alpha = 0]
    ELSE IF beat_index % 2 = 1 /\ conn.active /\ conn.alpha = FullAlpha
    THEN [conn EXCEPT !.active = FALSE]
    ELSE conn

\* activation that waits for the fade-out to finish
ToggleWhenFaded(conn, beat_index) ==
    IF beat_index % 2 = 0 /\ ~conn.active /\ conn.alpha = 0
    THEN [conn EXCEPT !.active = TRUE, !.alpha = 0]
    ELSE IF beat_index % 2 = 1 /\ conn.active
    THEN [conn EXCEPT !.active = FALSE]
    ELSE conn

\* lines 116-122
Toggle(conn, beat_index) ==
    IF beat_index % 2 = 0 /\ ~conn.active
    THEN [conn EXCEPT !.active = TRUE, !.alpha = 0]
    ELSE IF beat_index % 2 = 1 /\ conn.active
    THEN [conn EXCEPT !.active = FALSE]
    ELSE conn

\* the fade without the clamp at 255
FadeNoClamp(conn) ==
    IF conn.active
    THEN [conn EXCEPT !.alpha = conn.alpha + AlphaChange]
    ELSE [conn EXCEPT !.alpha = Max(0, conn.alpha - AlphaChange)]

\* lines 125-128
Fade(conn) ==
    IF conn.active
    THEN [conn EXCEPT !.alpha = Min(FullAlpha, conn.alpha + AlphaChange)]
    ELSE [conn EXCEPT !.alpha = Max(0, conn.alpha - AlphaChange)]

\* lines 92-106: this call of update ends in reset() and returns
LeavesScreen(g) == OffScreen(g.angle, Move(g.distance, Speed(g.distance)))

\* a connection that is inactive and faded out is dropped from the list
Visible(conn) == conn.active \/ conn.alpha > 0

UpdateConnectionsPrune(connections, time) ==
    SelectSeq([c \in 1..Len(connections) |->
                  Fade(Toggle(connections[c], BeatIndex(time)))], Visible)

\* lines 108-128: the connections of a group that stays on screen
UpdateConnections(connections, time) ==
    [c \in 1..Len(connections) |-> Fade(Toggle(connections[c], BeatIndex(time)))]

\* update that goes on to the connections after reset()
UpdateNoReturn(g, time, energy, s) ==
    LET moved == [g EXCEPT !.speed = Speed(g.distance),
                           !.distance = Move(g.distance, Speed(g.distance))]
    IN  IF OffScreen(moved.angle, moved.distance)
        THEN [Reset(moved, s) EXCEPT
                 !.connections = UpdateConnections(Reset(moved, s).connections, time)]
        ELSE [moved EXCEPT !.connections = UpdateConnections(g.connections, time)]

\* update that tests the centre before the move
UpdateTestBeforeMove(g, time, energy, s) ==
    LET moved == [g EXCEPT !.speed = Speed(g.distance),
                           !.distance = Move(g.distance, Speed(g.distance))]
    IN  IF OffScreen(g.angle, g.distance)
        THEN Reset(moved, s)
        ELSE [moved EXCEPT !.connections = UpdateConnections(g.connections, time)]

\* update whose step grows with the energy
UpdateEnergyDriven(g, time, energy, s) ==
    LET moved == [g EXCEPT !.speed = Speed(g.distance),
                           !.distance = Move(g.distance, Speed(g.distance))
                                            + energy \div 10]
    IN  IF OffScreen(moved.angle, moved.distance)
        THEN Reset(moved, s)
        ELSE [moved EXCEPT !.connections = UpdateConnections(g.connections, time)]

\* StarGroup.update, lines 89-128; s is the generator state at the call
Update(g, time, energy, s) ==
    LET moved == [g EXCEPT !.speed = Speed(g.distance),
                           !.distance = Move(g.distance, Speed(g.distance))]
    IN  IF OffScreen(moved.angle, moved.distance)
        THEN Reset(moved, s)
        ELSE [moved EXCEPT !.connections = UpdateConnections(g.connections, time)]

----------------------------------------------------------------------------
(* main, line 207: stars = [StarGroup(i) for i in range(NUM_STAR_GROUPS)] *)

RECURSIVE BuildGroups(_, _)
BuildGroups(i, s) ==
    IF i >= NumGroups THEN <<>>
    ELSE <<NewGroup(i, s)>> \o BuildGroups(i + 1, Advance(s, 2 + ResetDraws))

Construct ==
    /\ pc = "loaded"
    /\ pc' = "run"
    /\ stars' = BuildGroups(0, rng)
    /\ twin' = stars'
    /\ did_reset' = [i \in 1..NumGroups |-> TRUE]
    /\ since_reset' = [i \in 1..NumGroups |-> 0]
    /\ rng' = Advance(rng, NumGroups * (2 + ResetDraws))
    /\ UNCHANGED <<vocal_energy, total_frames, duration, t, current_energy, frames,
                   probe_distance, probe_speed>>

----------------------------------------------------------------------------
(* create_frame *)

\* lines 136-140; a list index below -len raises IndexError, an index in
\* -len .. -1 counts from the end of the list
EnergyAt(time, energies, n, d) ==
    IF n > 0
    THEN LET energy_idx == Min(n - 1, Trunc(time * n, d))
         IN  IF energies = <<>> THEN [ok |-> TRUE, value |-> 0]
             ELSE IF energy_idx >= 0
             THEN [ok |-> TRUE, value |-> energies[energy_idx + 1]]
             ELSE IF energy_idx >= -Len(energies)
             THEN [ok |-> TRUE, value |-> energies[Len(energies) + energy_idx + 1]]
             ELSE [ok |-> FALSE, value |-> 0]
    ELSE [ok |-> TRUE, value |-> 0]

\* random draws made in this frame by the groups updated before group i
DrawsBefore(groups, i) ==
    ResetDraws * Cardinality({j \in 1..(i - 1) : LeavesScreen(groups[j])})

\* lines 143-144: every group is updated in list order, drawing from the
\* one generator
UpdateAll(groups, time, energy, s) ==
    [i \in 1..Len(groups) |->
        Update(groups[i], time, energy, Advance(s, DrawsBefore(groups, i)))]

\* the values the energy argument of update can take
Energies == {0, 500, 1000}
OtherEnergy(e) == CHOOSE other \in Energies : other # e

\* create_frame, lines 130-194: the energy lookup and the update of every
\* group; did_reset[i] tells whether this call of update reset group i, and
\* since_reset[i] counts the calls of update since the last reset of group i
RenderFrame(time) ==
    /\ pc = "run"
    /\ LET e == EnergyAt(time, vocal_energy, total_frames, duration)
       IN  /\ t' = time
           /\ IF e.ok
              THEN /\ pc' = "run"
                   /\ current_energy' = e.value
                   /\ stars' = UpdateAll(stars, time, e.value, rng)
                   /\ did_reset' = [i \in 1..Len(stars) |-> LeavesScreen(stars[i])]
                   /\ since_reset' = [i \in 1..Len(stars) |->
                                         IF LeavesScreen(stars[i]) THEN 0
                                         ELSE since_reset[i] + 1]
                   /\ rng' = Advance(rng, DrawsBefore(stars, Len(stars) + 1))
                   /\ twin' = UpdateAll(twin, time, OtherEnergy(e.value), rng)
              ELSE /\ pc' = "error"
                   /\ UNCHANGED <<current_energy, stars, did_reset, since_reset, rng,
                                  twin>>
    /\ UNCHANGED <<vocal_energy, total_frames, duration, probe_distance, probe_speed>>

\* one of the MaxFrames calls of create_frame of a run
CreateFrame(time) ==
    /\ frames < MaxFrames
    /\ frames' = frames + 1
    /\ RenderFrame(time)

----------------------------------------------------------------------------
(* The program: main loads the audio, builds the groups and hands          *)
(* make_frame to the video writer, which calls it with timestamps.         *)

\* timestamps in ticks: 0 lies in an even beat and 22 in an odd one; -30 and
\* -90 lie before the start of the track
Times == {-90, -30, 0, 22}

Init ==
    /\ pc = "start"
    /\ rng \in 0..(NumSeeds - 1)
    /\ vocal_energy = <<>>
    /\ total_frames = 0
    /\ duration = 0
    /\ stars = <<>>
    /\ twin = <<>>
    /\ did_reset = <<>>
    /\ since_reset = <<>>
    /\ t = 0
    /\ current_energy = 0
    /\ frames = 0
    /\ probe_distance = 0
    /\ probe_speed = BASE_SPEED

MakeFrame == \E time \in Times : CreateFrame(time)

Next == LoadAudio(MainInputs) \/ Construct \/ MakeFrame

Spec == Init /\ [][Next]_vars

----------------------------------------------------------------------------
(* The video writer of main (write_videofile at fps=FPS): it asks for the  *)
(* frames at the fixed step t = n/FPS, n = 0, 1, 2, ...                    *)

NextFrame == CreateFrame(frames)

NextFixed == LoadAudio(MainInputs) \/ Construct \/ NextFrame

SpecFixed == Init /\ [][NextFixed]_vars

----------------------------------------------------------------------------
(* The video writer on a track of unbounded length: frames at the fixed    *)
(* step without end. Beyond the track's duration the energy index is       *)
(* clamped to the last sample, and the parity of the beat index repeats    *)
(* every BeatCycle ticks, so t is kept below duration + BeatCycle by       *)
(* subtracting BeatCycle: the frame produced is the same. load_audio has   *)
(* succeeded when frames are requested. The run starts from one generator  *)
(* state; every reset moves the generator on.                              *)

RECURSIVE GCD(_, _)
GCD(a, b) == IF b = 0 THEN a ELSE GCD(b, a % b)

\* the least number of ticks that holds an even number of beats:
\* 2 * 60 * FPS ticks hold 2 * BPM beats
BeatCycle == (2 * 60 * FPS) \div GCD(BPM, 60 * FPS)

LiveInputs == {in \in MainInputs : in.energy # <<>>}

NextTick ==
    IF frames = 0 THEN 0
    ELSE IF t + 1 < duration + BeatCycle THEN t + 1
    ELSE t + 1 - BeatCycle

EndlessFrame ==
    /\ frames' = Min(frames + 1, MaxFrames)
    /\ RenderFrame(NextTick)

NextLive == LoadAudio(LiveInputs) \/ Construct \/ EndlessFrame

InitLive == Init /\ rng = 0

SpecLive == InitLive /\ [][NextLive]_vars /\ WF_vars(NextLive)

----------------------------------------------------------------------------
(* The speed formula of update as a function of the distance alone: the    *)
(* distance is drawn from 0 .. SCREEN_DIAGONAL and lines 92-93 are applied *)

ProbeDistances == {(k * SCREEN_DIAGONAL) \div SpeedSteps : k \in 0..SpeedSteps}

InitSpeed ==
    /\ pc = "probe"
    /\ rng = 0
    /\ vocal_energy = <<>>
    /\ total_frames = 0
    /\ duration = 0
    /\ stars = <<>>
    /\ twin = <<>>
    /\ did_reset = <<>>
    /\ since_reset = <<>>
    /\ t = 0
    /\ current_energy = 0
    /\ frames = 0
    /\ probe_distance \in ProbeDistances
    /\ probe_speed = BASE_SPEED

ProbeSpeed ==
    /\ pc = "probe"
    /\ pc' = "probed"
    /\ probe_speed' = Speed(probe_distance)
    /\ UNCHANGED <<rng, vocal_energy, total_frames, duration, stars, did_reset,
                   since_reset, t, current_energy, frames, twin, probe_distance>>

NextSpeed == ProbeSpeed

SpecSpeed == InitSpeed /\ [][NextSpeed]_vars

----------------------------------------------------------------------------
(* Properties *)

Groups == 1..Len(stars)
Conns(i) == 1..Len(stars[i].connections)
Running == pc = "run" /\ frames > 0

\* C1: after any sequence of update calls, with any timestamps and with
\* resets in between, the opacity of every connection lies in [0, 255].
C1_OpacityInRange ==
    \A i \in Groups : \A c \in Conns(i) :
        /\ stars[i].connections[c].alpha >= 0
        /\ stars[i].connections[c].alpha <= FullAlpha

\* a frame in which one group was reset while a connection of another group
\* sits at the upper clamp
C1_Witness ==
    /\ Running
    /\ \E i \in Groups : did_reset[i]
    /\ \E j \in Groups : \E c \in Conns(j) :
          ~did_reset[j] /\ stars[j].connections[c].alpha = FullAlpha

\* floor(t / beat_duration) and int(t / beat_duration), beat_duration = 60/BPM
FloorBeat(time) == (time * BPM) \div (60 * FPS)
TruncBeat(time) ==
    IF time >= 0 THEN (time * BPM) \div (60 * FPS)
    ELSE -(((-time) * BPM) \div (60 * FPS))

\* C2 as stated: after a frame for timestamp t every connection of every
\* group is active when floor(t / beat_duration) is even, inactive when odd.
C2_AllFollowFloorBeat ==
    Running =>
        \A i \in Groups : \A c \in Conns(i) :
            stars[i].connections[c].active = (FloorBeat(t) % 2 = 0)

\* C2 (amended): after a frame for timestamp t every connection of every
\* group that was not reset in that frame is active when int(t / beat_duration)
\* (rounded toward zero, floor for t >= 0) is even and inactive when it is odd.
C2_SyncedUnlessReset ==
    Running =>
        \A i \in Groups : ~did_reset[i] =>
            \A c \in Conns(i) :
                stars[i].connections[c].active = (TruncBeat(t) % 2 = 0)

\* an even beat in which one group was reset (connections inactive) while
\* the connections of another are active
C2_Witness ==
    /\ Running
    /\ TruncBeat(t) % 2 = 0
    /\ \E i \in Groups : \E c \in Conns(i) :
          did_reset[i] /\ ~stars[i].connections[c].active
    /\ \E j \in Groups : \E c \in Conns(j) :
          ~did_reset[j] /\ stars[j].connections[c].active

Clamp(x, lo, hi) == Max(lo, Min(x, hi))

\* C3: for a non-empty track and any timestamp t, t < 0 and t >= D included,
\* the lookup does not fail and yields the sample at index
\* clamp(floor(t * N / D), 0, N - 1).
C3_LookupClamps ==
    (frames > 0 /\ total_frames > 0) =>
        /\ pc # "error"
        /\ current_energy =
              vocal_energy[Clamp((t * total_frames) \div duration, 0, total_frames - 1) + 1]

\* C4: for a track with zero analysed samples nothing fails and the energy
\* of every frame is 0.
C4_EmptyTrackZeroEnergy ==
    (pc # "start" /\ total_frames = 0) => (pc # "error" /\ current_energy = 0)

\* C5: with frames at the fixed step t = n/FPS from n = 0, every connection
\* (activated in the first frame, at beat index 0) is at opacity 255 once 22
\* frames are produced.
C5_FullAfter22Frames ==
    (pc = "run" /\ frames = 22) =>
        \A i \in Groups : \A c \in Conns(i) :
            stars[i].connections[c].alpha = FullAlpha

\* 22 frames produced, no group reset, a connection active and at 255
C5_Witness ==
    /\ pc = "run" /\ frames = 22 /\ t = 21
    /\ \A i \in Groups : ~did_reset[i]
    /\ \E i \in Groups : \E c \in Conns(i) :
          /\ stars[i].connections[c].active
          /\ stars[i].connections[c].alpha = FullAlpha

\* C6: across an update call that does not reset the group, its distance
\* does not decrease.
C6_DistanceNonDecreasing ==
    [][(pc = "run" /\ pc' = "run") =>
          \A i \in Groups :
              ~did_reset'[i] => stars'[i].distance >= stars[i].distance]_vars

\* a group that has moved beyond every distance a reset can draw
C6_Witness ==
    /\ Running
    /\ \E i \in Groups : ~did_reset[i] /\ stars[i].distance > 200 * 100

\* C7: right after reset(), at construction or inside update, the distance
\* is in [0, 200], the heading in [0, 2*pi) and there are STARS_PER_GROUP stars.
C7_AfterReset ==
    \A i \in Groups :
        did_reset[i] =>
            /\ stars[i].distance >= 0 /\ stars[i].distance <= 200 * 100
            /\ stars[i].angle >= 0 /\ stars[i].angle < TWO_PI
            /\ Len(stars[i].stars) = STARS_PER_GROUP

\* a frame whose update reset a group
C7_Witness == Running /\ \E i \in Groups : did_reset[i]

\* C8: every connection stores star indices (i, j) with 0 <= i < j < star count.
C8_ConnectionIndices ==
    \A i \in Groups : \A c \in Conns(i) :
        LET pair == stars[i].connections[c].stars
        IN  /\ 0 <= pair[1]
            /\ pair[1] < pair[2]
            /\ pair[2] < Len(stars[i].stars)

\* connections made by a reset inside update
C8_Witness ==
    /\ Running
    /\ \E i \in Groups : did_reset[i] /\ Len(stars[i].connections) > 0

\* C9: a run that passes another energy to every update, from the same
\* groups, with the same draws and timestamps, has the same groups (distance,
\* speed, heading, stars, connections) after every frame.
C9_EnergyIgnored == twin = stars

\* both runs have moved, faded connections and gone through a reset
C9_Witness ==
    /\ Running
    /\ \E i \in Groups : did_reset[i]
    /\ \E j \in Groups : \E c \in Conns(j) :
          ~did_reset[j] /\ twin[j].connections[c].alpha > 0

\* C10: the speed computed is BASE_SPEED at distance 0 and MAX_SPEED at
\* distance SCREEN_DIAGONAL.
C10_SpeedEndpoints ==
    pc = "probed" =>
        /\ probe_distance = 0 => probe_speed = BASE_SPEED
        /\ probe_distance = SCREEN_DIAGONAL => probe_speed = MAX_SPEED

\* the speed computed at the diagonal
C10_Witness == pc = "probed" /\ probe_distance = SCREEN_DIAGONAL

\* the first tick of the beat that holds tick time (time >= 0)
BeatStart(time) == (FloorBeat(time) * 60 * FPS + BPM - 1) \div BPM

\* the frame at tick t is the last of its beat
LastOfBeat == FloorBeat(t + 1) # FloorBeat(t)

\* group i went through every frame of the current beat without a reset
WholeBeat(i) == since_reset[i] >= t - BeatStart(t) + 1

C12_ActiveFollowsBeat ==
    (Running /\ t >= 0) =>
        \A i \in Groups : ~did_reset[i] =>
            \A c \in Conns(i) :
                /\ FloorBeat(t) % 2 = 0 => stars[i].connections[c].active
                /\ FloorBeat(t) % 2 = 1 => ~stars[i].connections[c].active

\* an odd beat: a connection deactivated before its fade-in was complete
C12_Witness ==
    /\ Running /\ t >= 0 /\ FloorBeat(t) % 2 = 1
    /\ \E i \in Groups : \E c \in Conns(i) :
          /\ ~did_reset[i]
          /\ ~stars[i].connections[c].active
          /\ stars[i].connections[c].alpha > 0
          /\ stars[i].connections[c].alpha < FullAlpha - AlphaChange

\* C13: after an update that found the centre off screen, every connection
\* of the group has opacity 0 and is inactive, whatever the beat index.
C13_ResetSkipsConnections ==
    Running =>
        \A i \in Groups : did_reset[i] =>
            \A c \in Conns(i) :
                /\ stars[i].connections[c].alpha = 0
                /\ ~stars[i].connections[c].active

\* a reset inside update in an even beat, in which a connection update
\* would have activated the new connections
C13_Witness ==
    /\ Running /\ TruncBeat(t) % 2 = 0
    /\ \E i \in Groups : did_reset[i] /\ Len(stars[i].connections) > 0

\* the star pairs of the connections of a group, in list order
PairsOf(g) == [c \in 1..Len(g.connections) |-> g.connections[c].stars]

\* C14: an update that does not reset the group leaves its heading, its
\* stars and the star pairs of its connections as they were.
C14_UpdateKeepsLayout ==
    [][(pc = "run" /\ pc' = "run") =>
          \A i \in Groups :
              ~did_reset'[i] =>
                  /\ stars'[i].angle = stars[i].angle
                  /\ stars'[i].stars = stars[i].stars
                  /\ PairsOf(stars'[i]) = PairsOf(stars[i])]_vars

\* a group that was updated without a reset and has a connection faded out
\* completely while inactive
C14_Witness ==
    /\ Running
    /\ \E i \in Groups : \E c \in Conns(i) :
          /\ since_reset[i] > 1
          /\ ~stars[i].connections[c].active
          /\ stars[i].connections[c].alpha = 0

\* C15: in the update in which a connection goes from inactive to active its
\* opacity afterwards is one per-frame change, whatever it was before.
C15_ActivationStartsAtZero ==
    [][(pc = "run" /\ pc' = "run") =>
          \A i \in Groups :
              ~did_reset'[i] =>
                  \A c \in Conns(i) :
                      (~stars[i].connections[c].active
                          /\ stars'[i].connections[c].active)
                      => stars'[i].connections[c].alpha = AlphaChange]_vars

\* a connection just activated, in a group old enough to have had it fade
C15_Witness ==
    /\ Running
    /\ \E i \in Groups : \E c \in Conns(i) :
          /\ since_reset[i] >= 4
          /\ stars[i].connections[c].active
          /\ stars[i].connections[c].alpha = AlphaChange

\* the distance from the canvas centre to a corner of the canvas grown by
\* 100 pixels, in 1/100 pixel
CornerDistance ==
    10 * SqrtBetween((5 * WIDTH + 1000) * (5 * WIDTH + 1000)
                       + (5 * HEIGHT + 1000) * (5 * HEIGHT + 1000),
                     0, 10 * (WIDTH + HEIGHT))

\* updates a group can survive at BASE_SPEED per update before it is off screen
ResetGapBound == CornerDistance \div BASE_SPEED + 1

\* C16: with frames requested without end no group goes more than
\* ResetGapBound updates without a reset, so every group is reset again and
\* again (each update that does not reset adds one to since_reset).
C16_ResetsRecur ==
    pc = "run" => \A i \in Groups : since_reset[i] <= ResetGapBound

\* a reset inside update later than any first reset can be
C16_Witness ==
    /\ pc = "run" /\ frames = MaxFrames
    /\ \E i \in Groups : did_reset[i] /\ t > ResetGapBound

\* C17: after every update, reset or not, the centre of the group lies in
\* the canvas grown by 100 pixels on every side.
C17_CentreInBox ==
    pc = "run" =>
        \A i \in Groups :
            LET center_x == WIDTH * 50 + Cos(stars[i].angle) * stars[i].distance
                center_y == HEIGHT * 50 + Sin(stars[i].angle) * stars[i].distance
            IN  /\ center_x >= -100 * 100 /\ center_x <= (WIDTH + 100) * 100
                /\ center_y >= -100 * 100 /\ center_y <= (HEIGHT + 100) * 100

\* a group that was reset before and is again within one step of the edge
C17_Witness ==
    /\ Running /\ frames = MaxFrames
    /\ \E i \in Groups :
          /\ since_reset[i] > 0 /\ since_reset[i] < t
          /\ LeavesScreen(stars[i])

\* C18: the speed of every group lies in [BASE_SPEED, MAX_SPEED] and its
\* distance stays below SCREEN_DIAGONAL.
C18_SpeedInRange ==
    pc = "run" =>
        \A i \in Groups :
            /\ stars[i].speed >= BASE_SPEED
            /\ stars[i].speed <= MAX_SPEED
            /\ stars[i].distance < SCREEN_DIAGONAL

\* a group that has sped up, after some group was reset and slowed down
C18_Witness ==
    /\ Running /\ frames = MaxFrames
    /\ \E i \in Groups : stars[i].speed > BASE_SPEED + 50
    /\ \E j \in Groups : did_reset[j] /\ stars[j].speed = BASE_SPEED

====
